---- MODULE Spec2Model ----
(***************************************************************************)
(* A model of SyncFunctionsClient                                          *)
(* (src/supabase_functions/_sync/functions_client.py): the client's header *)
(* dict, set_auth, invoke and _request, with the HTTP transport as the     *)
(* environment that answers each request.                                  *)
(*                                                                         *)
(* Python values are modelled as follows.                                  *)
(*   dict            a function whose domain is the set of keys            *)
(*   Optional[x]     a sequence of length 0 (None / key absent) or 1       *)
(*   region strings  sequences of one-character strings, so that lower()   *)
(*                   and strip() are computed character by character       *)
(*   other strings   TLA+ strings                                          *)
(***************************************************************************)
EXTENDS Integers, Sequences, FiniteSets, TLC

VARIABLES
    url,          \* self.url
    headers,      \* self.headers, the dict every call shares
    client,       \* self._client: the transport's configuration
    last,         \* the most recent call: its arguments, request, reply, outcome
    ninvokes,     \* number of invoke calls made
    requests,     \* every request handed to the transport so far, in order
    auth_token,   \* history: the token of the most recent set_auth, if any
    wrote,        \* history: key -> value most recently written by an invoke
    writer,       \* history: key -> operation that wrote the key's current value
    serialized,   \* whether the callers serialize their calls on the client
    pc,           \* caller -> the statement of invoke it is about to run
    job           \* caller -> its current call: arguments, request, outcome

vars == <<url, headers, client, last, ninvokes, requests, auth_token, wrote, writer,
          serialized, pc, job>>

callers == <<serialized, pc, job>>

\* Bound on the number of invoke calls of one behaviour.
MaxInvokes == 2

----------------------------------------------------------------------------
\* Python dict and Optional helpers

EmptyDict == [k \in {} |-> ""]

None == <<>>

Some(v) == <<v>>

IsNone(o) == Len(o) = 0

\* dict.update(o): o's entries win
Update(d, o) == [k \in DOMAIN d \cup DOMAIN o |-> IF k \in DOMAIN o THEN o[k] ELSE d[k]]

\* d[k] = v
SetItem(d, k, v) == Update(d, k :> v)

\* d.get(k) as an Optional
GetOpt(d, k) == IF k \in DOMAIN d THEN Some(d[k]) ELSE None

----------------------------------------------------------------------------
\* str.lower() and str.strip() on character sequences

LowerChar(c) ==
    CASE c = "A" -> "a"
      [] c = "N" -> "n"
      [] c = "Y" -> "y"
      [] c = "U" -> "u"
      [] c = "S" -> "s"
      [] OTHER -> c

lower(s) == [i \in 1..Len(s) |-> LowerChar(s[i])]

IsSpace(c) == c = " "

RECURSIVE lstrip(_)
lstrip(s) == IF Len(s) > 0 /\ IsSpace(Head(s)) THEN lstrip(Tail(s)) ELSE s

RECURSIVE rstrip(_)
rstrip(s) ==
    IF Len(s) > 0 /\ IsSpace(s[Len(s)]) THEN rstrip(SubSeq(s, 1, Len(s) - 1)) ELSE s

strip(s) == rstrip(lstrip(s))

\* the literal "any" of line 75
ANY == <<"a", "n", "y">>

----------------------------------------------------------------------------
\* __init__ (lines 10-23)

UserAgent == "supabase-py/functions-py v0"

InitHeaders(hdrs) == Update("User-Agent" :> UserAgent, hdrs)

\* SyncClient(...) keeps its own copy of the headers it is constructed with
SyncClient(base_url, hdrs, verify, timeout) ==
    [base_url |-> base_url, headers |-> hdrs, verify |-> verify,
     timeout |-> timeout, follow_redirects |-> TRUE, http2 |-> TRUE]

----------------------------------------------------------------------------
\* set_auth (lines 43-52)

Bearer(token) == "Bearer " \o token

\* set_auth that forgets the "Bearer " scheme
SetAuthHeadersNoScheme(h, token) == SetItem(h, "Authorization", token)

\* set_auth that replaces the dict instead of writing one key
SetAuthHeadersFresh(h, token) == "Authorization" :> Bearer(token)

SetAuthHeaders(h, token) == SetItem(h, "Authorization", Bearer(token))

----------------------------------------------------------------------------
\* invoke: the header work of lines 67-82

\* line 71: headers.update(invoke_options.get("headers", {}))
OverlayStep(h, opts) ==
    Update(h, IF "headers" \in DOMAIN opts THEN opts["headers"] ELSE EmptyDict)

\* line 75: region and isinstance(region, str) and region != "any"
RegionApplies(opts) ==
    /\ "region" \in DOMAIN opts
    /\ Len(opts["region"]) > 0
    /\ opts["region"] # ANY

\* line 76 without the strip()
RegionStepUntrimmed(h, opts) ==
    IF RegionApplies(opts) THEN SetItem(h, "x-region", lower(opts["region"])) ELSE h

\* line 76: headers["x-region"] = region.lower().strip()
RegionStep(h, opts) ==
    IF RegionApplies(opts) THEN SetItem(h, "x-region", strip(lower(opts["region"]))) ELSE h

\* lines 78-82 with application/json for every body
BodyStepAlwaysJson(h, opts) ==
    IF "body" \in DOMAIN opts THEN SetItem(h, "Content-Type", "application/json") ELSE h

\* lines 78-82
BodyStep(h, opts) ==
    IF "body" \in DOMAIN opts
    THEN CASE opts["body"].type = "str"  -> SetItem(h, "Content-Type", "text/plain")
           [] opts["body"].type = "dict" -> SetItem(h, "Content-Type", "application/json")
           [] OTHER -> h
    ELSE h

\* lines 67-82: the dict `headers` names when the request is built
InvokeHeaders(h, io) ==
    IF IsNone(io) THEN h ELSE BodyStep(RegionStep(OverlayStep(h, io[1]), io[1]), io[1])

\* line 67 with a copy, `headers = dict(self.headers)`: self.headers stays as it was
SelfHeadersCopied(h, io) == h

\* line 67, `headers = self.headers`: `headers` is self.headers itself, so what
\* invoke writes to it is what self.headers holds afterwards
SelfHeadersAfterInvoke(h, io) == InvokeHeaders(h, io)

\* lines 68, 78: body
InvokeBody(io) == IF IsNone(io) THEN None ELSE GetOpt(io[1], "body")

\* lines 69, 72 with the default the docstring of invoke names
ResponseTypeDefaultJson(io) ==
    IF IsNone(io) \/ "responseType" \notin DOMAIN io[1] THEN "json" ELSE io[1]["responseType"]

\* lines 69, 72: response_type
ResponseType(io) ==
    IF IsNone(io) \/ "responseType" \notin DOMAIN io[1]
    THEN "text/plain" ELSE io[1]["responseType"]

\* lines 84-86 without `headers=headers`
InvokeRequestWithoutHeaders(base, function_name, h, body) ==
    [method |-> "POST", url |-> base \o "/" \o function_name, headers |-> EmptyDict,
     json |-> body]

\* lines 84-86: the arguments of self._request
InvokeRequest(base, function_name, h, body) ==
    [method |-> "POST", url |-> base \o "/" \o function_name, headers |-> h, json |-> body]

----------------------------------------------------------------------------
\* The transport and the response (httpx, called at lines 32-38)

\* self._client.request merges the request's headers over the client's own
WireRequest(cl, req) == [req EXCEPT !.headers = Update(cl.headers, req.headers)]

\* response.raise_for_status() (line 34) raises for every status that is not 2xx
RaisesForStatus(response) == ~(response.status_code \in 200..299)

\* response.json() (lines 37, 90, 93): the decoded value of the body, or a
\* parse failure
response_json(response) ==
    CASE response.content = "{\"error\":\"boom\"}" ->
            [ok |-> TRUE, type |-> "dict", map |-> ("error" :> "boom")]
      [] response.content = "{\"error\":\"\"}" ->
            [ok |-> TRUE, type |-> "dict", map |-> ("error" :> "")]
      [] response.content = "{\"ok\":true}" ->
            [ok |-> TRUE, type |-> "dict", map |-> ("ok" :> "true")]
      [] response.content = "[1]" ->
            [ok |-> TRUE, type |-> "list", map |-> ("0" :> "1")]
      [] OTHER ->
            [ok |-> FALSE, type |-> "", map |-> EmptyDict]

\* line 38: the generic message, which names the request URL
GenericMessage(request_url) ==
    "An error occurred while requesting your edge function at URL('"
        \o request_url \o "')."

\* Python truthiness of an Optional[str]
Truthy(o) == ~IsNone(o) /\ o[1] # ""

Raise(kind, message) == [raised |-> kind, message |-> message]

\* lines 36-39: the exception the `except HTTPError` block ends with
HttpErrorRaised(response, request_url) ==
    LET j == response_json(response) IN
    IF ~j.ok THEN Raise("JSONDecodeError", None)
    ELSE IF j.type # "dict" THEN Raise("AttributeError", None)
    ELSE IF Truthy(GetOpt(j.map, "error"))
         THEN Raise("FunctionsHttpError", Some(j.map["error"]))
         ELSE Raise("FunctionsHttpError", Some(GenericMessage(request_url)))

\* _request that tries once more when the transport fails
_request_retrying(cl, req, reply) ==
    LET wire == WireRequest(cl, req) IN
    IF reply.exc # ""
    THEN [sent |-> <<wire, wire>>, raised |-> Raise(reply.exc, None), response |-> None]
    ELSE IF RaisesForStatus(reply)
         THEN [sent |-> <<wire>>, raised |-> HttpErrorRaised(reply, wire.url),
               response |-> None]
         ELSE [sent |-> <<wire>>, raised |-> Raise("", None), response |-> Some(reply)]

\* _request (lines 25-41): the requests handed to the transport, and the
\* exception raised or the response returned
_request(cl, req, reply) ==
    LET wire == WireRequest(cl, req) IN
    IF reply.exc # ""
    THEN [sent |-> <<wire>>, raised |-> Raise(reply.exc, None), response |-> None]
    ELSE IF RaisesForStatus(reply)
         THEN [sent |-> <<wire>>, raised |-> HttpErrorRaised(reply, wire.url),
               response |-> None]
         ELSE [sent |-> <<wire>>, raised |-> Raise("", None), response |-> Some(reply)]

\* line 89
IsRelayError(response) ==
    /\ "x-relay-header" \in DOMAIN response.headers
    /\ response.headers["x-relay-header"] = "true"

\* line 90: the exception `raise FunctionsRelayError(response.json().get("error"))`
\* ends with
RelayErrorRaised(response) ==
    LET j == response_json(response) IN
    IF ~j.ok THEN Raise("JSONDecodeError", None)
    ELSE IF j.type # "dict" THEN Raise("AttributeError", None)
    ELSE Raise("FunctionsRelayError", GetOpt(j.map, "error"))

NoData == [type |-> "NoneType", bytes |-> "", map |-> EmptyDict]

Returns(data) == [raised |-> "", message |-> None, data |-> data]

Raises(r) == [raised |-> r.raised, message |-> r.message, data |-> NoData]

\* lines 87-96: what invoke does with the result of _request
InvokeOutcome(rq, response_type) ==
    IF rq.raised.raised # "" THEN Raises(rq.raised)
    ELSE LET response == rq.response[1] IN
         IF IsRelayError(response) THEN Raises(RelayErrorRaised(response))
         ELSE IF response_type = "json"
              THEN LET j == response_json(response) IN
                   IF j.ok
                   THEN Returns([type |-> j.type, bytes |-> "", map |-> j.map])
                   ELSE Raises(Raise("JSONDecodeError", None))
              ELSE Returns([type |-> "bytes", bytes |-> response.content,
                            map |-> EmptyDict])

----------------------------------------------------------------------------
\* Inputs

BaseUrl == "https://example.supabase.co/functions/v1"

FunctionNames == {"hello"}

Tokens == {"abc", "def"}

ConstructorHeaders == {EmptyDict, "Authorization" :> "Bearer key"}

HeaderOverlays ==
    { "Authorization" :> "Bearer own",
      ("x-region" :> <<"e", "u">>) @@ ("Content-Type" :> "application/xml") }

Regions == { <<>>, ANY, <<"u", "s">>, <<" ", "U", "S", " ">> }

Bodies ==
    { [type |-> "str", repr |-> "hello"], [type |-> "dict", repr |-> "{'name': 'x'}"] }

Optional(S) == {None} \cup {Some(x) : x \in S}

Field(k, o) == IF IsNone(o) THEN EmptyDict ELSE k :> o[1]

\* the dicts a caller may pass as invoke_options: every key is optional
OptionDicts(H, R, B, T) ==
    { Field("headers", h) @@ Field("region", r) @@ Field("body", b)
          @@ Field("responseType", t) :
        h \in Optional(H), r \in Optional(R), b \in Optional(B), t \in Optional(T) }

InvokeOptions(H, R, B, T) == Optional(OptionDicts(H, R, B, T))

Response(status_code, hdrs, content) ==
    [exc |-> "", status_code |-> status_code, headers |-> hdrs, content |-> content]

TransportFailure(exc) ==
    [exc |-> exc, status_code |-> 0, headers |-> EmptyDict, content |-> ""]

RelayHeaders ==
    { EmptyDict, "x-relay-header" :> "true", "x-relay-header" :> "false" }

Contents == { "{\"error\":\"boom\"}", "{\"error\":\"\"}", "{\"ok\":true}", "[1]", "oops" }

Responses(S, RH, C) == { Response(s, rh, c) : s \in S, rh \in RH, c \in C }

TransportFailures == { TransportFailure("ConnectError") }

----------------------------------------------------------------------------
\* State machine: calls made one after another

Callers == {1, 2}

NoJob == [op |-> "none"]

Constructed(hdrs) ==
        /\ url = BaseUrl
        /\ headers = InitHeaders(hdrs)
        /\ client = SyncClient(BaseUrl, InitHeaders(hdrs), TRUE, 5)
        /\ last = [op |-> "init"]
        /\ ninvokes = 0
        /\ requests = <<>>
        /\ auth_token = None
        /\ wrote = EmptyDict
        /\ writer = [k \in DOMAIN InitHeaders(hdrs) |-> "init"]
        /\ pc = [t \in Callers |-> "idle"]
        /\ job = [t \in Callers |-> NoJob]

Init == \E hdrs \in ConstructorHeaders : Constructed(hdrs) /\ serialized = TRUE

set_auth(token) ==
    /\ headers' = SetAuthHeaders(headers, token)
    /\ last' = [op |-> "set_auth", token |-> token]
    /\ auth_token' = Some(token)
    /\ writer' = SetItem(writer, "Authorization", "set_auth")
    /\ UNCHANGED <<url, client, ninvokes, requests, wrote, callers>>

invoke(function_name, invoke_options, reply) ==
    /\ ninvokes < MaxInvokes
    /\ LET req == InvokeRequest(url, function_name,
                                InvokeHeaders(headers, invoke_options),
                                InvokeBody(invoke_options))
           rq == _request(client, req, reply)
           written == InvokeHeaders(EmptyDict, invoke_options)
       IN /\ headers' = SelfHeadersAfterInvoke(headers, invoke_options)
          /\ last' = [op |-> "invoke",
                      function_name |-> function_name,
                      invoke_options |-> invoke_options,
                      sent |-> rq.sent,
                      reply |-> reply,
                      outcome |-> InvokeOutcome(rq, ResponseType(invoke_options))]
          /\ requests' = requests \o rq.sent
          /\ wrote' = Update(wrote, written)
          /\ writer' = Update(writer, [k \in DOMAIN written |-> "invoke"])
    /\ ninvokes' = ninvokes + 1
    /\ UNCHANGED <<url, client, auth_token, callers>>

\* Calls that exercise the header work of invoke
CallOptions == InvokeOptions(HeaderOverlays, Regions, Bodies, {})

CallReplies == Responses({200, 500}, {EmptyDict}, {"{\"error\":\"boom\"}"})

Next ==
    \/ \E token \in Tokens : set_auth(token)
    \/ \E fn \in FunctionNames, io \in CallOptions, reply \in CallReplies :
          invoke(fn, io, reply)

Spec == Init /\ [][Next]_vars

\* Calls that exercise the handling of the reply
ReplyOptions == InvokeOptions({}, {}, {}, {"json", "text"})

AllReplies == Responses({200, 201, 500}, RelayHeaders, Contents) \cup TransportFailures

NextReplies ==
    \/ \E token \in Tokens : set_auth(token)
    \/ \E fn \in FunctionNames, io \in ReplyOptions, reply \in AllReplies :
          invoke(fn, io, reply)

SpecReplies == Init /\ [][NextReplies]_vars

----------------------------------------------------------------------------
\* State machine: two callers sharing one client.  invoke takes no lock, so a
\* caller's invoke runs statement by statement and the other caller's
\* statements may run in between; callers that serialize their calls start a
\* call only when no other call is under way.

\* the statement that follows p in invoke (lines 70-84)
AfterStep(p) ==
    CASE p = "overlay" -> "region"
      [] p = "region" -> "body"
      [] p = "body" -> "send"
      [] OTHER -> "idle"

MayStart(t) ==
    /\ pc[t] = "idle"
    /\ serialized => \A u \in Callers : pc[u] = "idle"

history == <<last, auth_token, wrote, writer>>

caller_set_auth(t, token) ==
    /\ MayStart(t)
    /\ headers' = SetAuthHeaders(headers, token)
    /\ job' = [job EXCEPT ![t] = [op |-> "set_auth", token |-> token]]
    /\ UNCHANGED <<url, client, ninvokes, requests, history, serialized, pc>>

\* lines 67-70
caller_begin(t, function_name, invoke_options) ==
    /\ MayStart(t)
    /\ ninvokes < MaxInvokes
    /\ ninvokes' = ninvokes + 1
    /\ job' = [job EXCEPT ![t] = [op |-> "invoke",
                                  function_name |-> function_name,
                                  invoke_options |-> invoke_options,
                                  start |-> headers,
                                  sent |-> <<>>]]
    /\ pc' = [pc EXCEPT ![t] = IF IsNone(invoke_options) THEN "send" ELSE "overlay"]
    /\ UNCHANGED <<url, headers, client, requests, history, serialized>>

\* lines 71-72
caller_overlay(t) ==
    /\ pc[t] = "overlay"
    /\ headers' = OverlayStep(headers, job[t].invoke_options[1])
    /\ pc' = [pc EXCEPT ![t] = AfterStep("overlay")]
    /\ UNCHANGED <<url, client, ninvokes, requests, history, serialized, job>>

\* lines 74-76
caller_region(t) ==
    /\ pc[t] = "region"
    /\ headers' = RegionStep(headers, job[t].invoke_options[1])
    /\ pc' = [pc EXCEPT ![t] = AfterStep("region")]
    /\ UNCHANGED <<url, client, ninvokes, requests, history, serialized, job>>

\* lines 78-82
caller_body(t) ==
    /\ pc[t] = "body"
    /\ headers' = BodyStep(headers, job[t].invoke_options[1])
    /\ pc' = [pc EXCEPT ![t] = AfterStep("body")]
    /\ UNCHANGED <<url, client, ninvokes, requests, history, serialized, job>>

\* lines 84-96: the request is built from the shared dict as it is now
caller_send(t, reply) ==
    /\ pc[t] = "send"
    /\ LET req == InvokeRequest(url, job[t].function_name, headers,
                                InvokeBody(job[t].invoke_options))
           rq == _request(client, req, reply)
       IN /\ requests' = requests \o rq.sent
          /\ job' = [job EXCEPT ![t] =
                        [op |-> "invoke",
                         function_name |-> job[t].function_name,
                         invoke_options |-> job[t].invoke_options,
                         start |-> job[t].start,
                         sent |-> rq.sent,
                         outcome |-> InvokeOutcome(rq, ResponseType(job[t].invoke_options))]]
    /\ pc' = [pc EXCEPT ![t] = AfterStep("send")]
    /\ UNCHANGED <<url, headers, client, ninvokes, history, serialized>>

InitCallers ==
    \E hdrs \in ConstructorHeaders : Constructed(hdrs) /\ serialized \in BOOLEAN

CallerOptions ==
    InvokeOptions({"Authorization" :> "Bearer own"}, {<<" ", "U", "S", " ">>},
                  {[type |-> "str", repr |-> "hello"]}, {})

CallerTokens == {"abc"}

CallerReplies == Responses({200}, {EmptyDict}, {"{\"ok\":true}"})

NextCallers ==
    \E t \in Callers :
        \/ \E token \in CallerTokens : caller_set_auth(t, token)
        \/ \E fn \in FunctionNames, io \in CallerOptions : caller_begin(t, fn, io)
        \/ caller_overlay(t)
        \/ caller_region(t)
        \/ caller_body(t)
        \/ \E reply \in CallerReplies : caller_send(t, reply)

SpecCallers == InitCallers /\ [][NextCallers]_vars

----------------------------------------------------------------------------
\* Names used by the properties below

LastInvoke == last.op = "invoke"

\* the request the last invoke put on the wire
Sent == last.sent[1]

GivenOptions == IF IsNone(last.invoke_options) THEN EmptyDict ELSE last.invoke_options[1]

GivenHeaders == IF "headers" \in DOMAIN GivenOptions THEN GivenOptions["headers"] ELSE EmptyDict

Answered == LastInvoke /\ last.reply.exc = ""

\* the value of header k when this call's options do not write it: the call's own
\* headers', else what an earlier invoke left in the shared dict, else what the
\* client was constructed with
Inherited(k) ==
    IF k \in DOMAIN GivenHeaders THEN Some(GivenHeaders[k])
    ELSE IF k \in DOMAIN wrote THEN Some(wrote[k])
    ELSE GetOpt(client.headers, k)

----------------------------------------------------------------------------
\* C1: every response whose status is not 2xx makes invoke fail with
\* FunctionsHttpError, whose message is the body's `error` field when the body
\* parses as JSON and carries one, and the generic message naming the request
\* URL otherwise (field absent, or body not JSON); no other failure is raised.
\* (An empty `error` field is read here as no field, in the claim's favour.)
C1_NonSuccessRaisesHttpError ==
    (Answered /\ last.reply.status_code \notin 200..299) =>
        LET j == response_json(last.reply) IN
        /\ last.outcome.raised = "FunctionsHttpError"
        /\ last.outcome.message =
              Some(IF j.ok /\ j.type = "dict" /\ Truthy(GetOpt(j.map, "error"))
                   THEN j.map["error"] ELSE GenericMessage(Sent.url))

\* C2: every response with `x-relay-header: true` and a JSON body makes invoke
\* fail with FunctionsRelayError carrying the body's `error` field, whatever
\* the status code.
C2_RelayHeaderRaisesRelayError ==
    LET j == response_json(last.reply) IN
    (/\ Answered
     /\ GetOpt(last.reply.headers, "x-relay-header") = Some("true")
     /\ j.ok /\ j.type = "dict") =>
        /\ last.outcome.raised = "FunctionsRelayError"
        /\ last.outcome.message = GetOpt(j.map, "error")

\* C3 as stated: once set_auth(t) was called, every later invoke, whatever its
\* options, sends `Authorization: Bearer t` until the next set_auth.
C3_EveryInvokeSendsToken ==
    (LastInvoke /\ ~IsNone(auth_token)) =>
        GetOpt(Sent.headers, "Authorization") = Some(Bearer(auth_token[1]))

\* C3 amended: once set_auth(t) was called, every later invoke sends
\* `Authorization: Bearer t` until the next set_auth or the next invoke whose
\* options.headers carry an `Authorization` of their own (which replaces it in
\* the shared dict); and no step changes a request already sent.
C3_TokenSentUntilOverwritten ==
    /\ []((LastInvoke /\ ~IsNone(auth_token) /\ writer["Authorization"] = "set_auth") =>
            GetOpt(Sent.headers, "Authorization") = Some(Bearer(auth_token[1])))
    /\ [][/\ Len(requests') >= Len(requests)
          /\ SubSeq(requests', 1, Len(requests)) = requests]_vars

\* C3 witness: a request sent with abc, then set_auth("def"), then a request
\* sent with def, the first request still carrying abc.
C3_Witness ==
    /\ LastInvoke /\ auth_token = Some("def") /\ Len(requests) = 2
    /\ GetOpt(requests[1].headers, "Authorization") = Some("Bearer abc")
    /\ GetOpt(requests[2].headers, "Authorization") = Some("Bearer def")

ContentTypeForcedByBody ==
    /\ ("body" \in DOMAIN GivenOptions /\ GivenOptions["body"].type = "str") =>
          GetOpt(Sent.headers, "Content-Type") = Some("text/plain")
    /\ ("body" \in DOMAIN GivenOptions /\ GivenOptions["body"].type = "dict") =>
          GetOpt(Sent.headers, "Content-Type") = Some("application/json")

\* C4 as stated: in every invoke the body decides `Content-Type`: text/plain
\* for a string, application/json for a dict, and with no body the request
\* carries a `Content-Type` only if the client's or the call's headers give one.
C4_ContentTypeOnlyFromCaller ==
    LastInvoke =>
        /\ ContentTypeForcedByBody
        /\ ("body" \notin DOMAIN GivenOptions /\ "Content-Type" \in DOMAIN Sent.headers) =>
              "Content-Type" \in DOMAIN client.headers \cup DOMAIN GivenHeaders

\* C4 amended: text/plain for a string body, application/json for a dict body;
\* with no body invoke writes no `Content-Type`, and the request carries the one
\* of the call's headers, else the one an earlier invoke left in the shared
\* dict, else the one the client was constructed with, else none.
C4_ContentTypeByBodyOrInherited ==
    LastInvoke =>
        /\ ContentTypeForcedByBody
        /\ "body" \notin DOMAIN GivenOptions =>
              GetOpt(Sent.headers, "Content-Type") = Inherited("Content-Type")

\* C4 witness: a call without body and without headers of its own is sent with
\* the text/plain an earlier call's string body left behind.
C4_Witness ==
    /\ LastInvoke /\ "body" \notin DOMAIN GivenOptions
    /\ "Content-Type" \notin DOMAIN GivenHeaders
    /\ GetOpt(Sent.headers, "Content-Type") = Some("text/plain")

RegionGiven ==
    /\ "region" \in DOMAIN GivenOptions
    /\ GivenOptions["region"] # <<>>
    /\ GivenOptions["region"] # <<"a", "n", "y">>

RegionHeaderWritten ==
    /\ RegionGiven =>
          GetOpt(Sent.headers, "x-region") = Some(strip(lower(GivenOptions["region"])))
    /\ ("region" \in DOMAIN GivenOptions /\ GivenOptions["region"] = <<" ", "U", "S", " ">>) =>
          GetOpt(Sent.headers, "x-region") = Some(<<"u", "s">>)

\* C5 as stated: a region that is a non-empty string other than "any" is sent
\* as `x-region`, trimmed and lowercased; with region "any", empty or absent
\* the request carries no `x-region`.  (Read in the claim's favour: unless the
\* caller put an `x-region` in the client's or the call's headers.)
C5_NoRegionNoHeader ==
    LastInvoke =>
        /\ RegionHeaderWritten
        /\ (/\ ~RegionGiven
            /\ "x-region" \notin DOMAIN client.headers \cup DOMAIN GivenHeaders) =>
              "x-region" \notin DOMAIN Sent.headers

\* C5 amended: a region that is a non-empty string other than "any" is sent as
\* `x-region`, trimmed and lowercased; with region "any", empty or absent
\* invoke writes no `x-region`, and the request carries the one of the call's
\* headers, else the one an earlier invoke left in the shared dict, else the
\* one the client was constructed with, else none.
C5_RegionWrittenOrInherited ==
    LastInvoke =>
        /\ RegionHeaderWritten
        /\ ~RegionGiven => GetOpt(Sent.headers, "x-region") = Inherited("x-region")

\* C5 witness: a call with region "any" and no headers of its own is sent with
\* the x-region an earlier call's region left behind.
C5_Witness ==
    /\ LastInvoke /\ GetOpt(GivenOptions, "region") = Some(ANY)
    /\ "x-region" \notin DOMAIN GivenHeaders
    /\ GetOpt(Sent.headers, "x-region") = Some(<<"u", "s">>)

C7_OneRequestPerInvoke ==
    /\ Len(requests) = ninvokes
    /\ LastInvoke =>
          /\ Len(last.sent) = 1
          /\ requests[Len(requests)] = Sent
          /\ Sent.method = "POST"
          /\ Sent.url = url \o "/" \o last.function_name
          /\ last.reply.exc # "" =>
                /\ last.outcome.raised = last.reply.exc
                /\ last.outcome.raised \notin {"FunctionsHttpError", "FunctionsRelayError"}

\* C7 witness: the second of two invokes meets a transport failure.
C7_Witness ==
    /\ LastInvoke /\ last.reply.exc = "ConnectError"
    /\ last.outcome.raised = "ConnectError"
    /\ ninvokes = 2 /\ Len(requests) = 2

\* C8 as stated: what an invoke writes to the headers is written to the
\* client's own dict before the request is sent, so every later invoke that
\* does not overwrite it sends it again.
C8_WrittenHeadersAlwaysResent ==
    LastInvoke =>
        /\ Sent.headers = headers
        /\ \A k \in DOMAIN wrote : GetOpt(Sent.headers, k) = Some(wrote[k])

\* C8 amended: what an invoke writes to the headers is written to the client's
\* own dict before the request is sent, also when the invoke fails, so every
\* later invoke that does not overwrite it sends it again, unless a set_auth in
\* between has replaced it (the `Authorization` header).
C8_WrittenHeadersResentUnlessReplaced ==
    /\ \A k \in DOMAIN wrote : writer[k] = "invoke" => GetOpt(headers, k) = Some(wrote[k])
    /\ LastInvoke =>
          /\ Sent.headers = headers
          /\ \A k \in DOMAIN wrote :
                writer[k] = "invoke" => GetOpt(Sent.headers, k) = Some(wrote[k])

\* C8 witness: an invoke without options sends again
\* the x-region and Content-Type the invoke before it wrote.
C8_Witness ==
    /\ LastInvoke /\ IsNone(last.invoke_options) /\ Len(requests) = 2
    /\ {"x-region", "Content-Type"} \subseteq DOMAIN wrote
    /\ "x-region" \notin DOMAIN client.headers
    /\ Sent.headers["x-region"] = wrote["x-region"]
    /\ Sent.headers["Content-Type"] = wrote["Content-Type"]
    /\ requests[1].headers = Sent.headers

\* C10: no operation removes a header; User-Agent is in the dict in every state
\* and in every request sent; set_auth changes the value of Authorization and
\* nothing else: not another header, not the URL, not the transport.
C10_HeadersOnlyGrow ==
    /\ []("User-Agent" \in DOMAIN headers)
    /\ [](LastInvoke => "User-Agent" \in DOMAIN Sent.headers)
    /\ [][/\ DOMAIN headers \subseteq DOMAIN headers'
          /\ last'.op = "set_auth" =>
                /\ DOMAIN headers' = DOMAIN headers \cup {"Authorization"}
                /\ \A k \in DOMAIN headers \ {"Authorization"} : headers'[k] = headers[k]
                /\ headers'["Authorization"] = Bearer(last'.token)
                /\ url' = url
                /\ client' = client]_vars

\* C10 witness: set_auth after two invokes that left headers behind.
C10_Witness ==
    /\ last.op = "set_auth" /\ ninvokes = 2
    /\ {"User-Agent", "Authorization", "x-region", "Content-Type"} \subseteq DOMAIN headers
    /\ headers["Authorization"] = "Bearer abc"

\* the headers a caller's request carries when nothing runs between the
\* statements of its invoke: its options applied to the dict as the call found it
OwnHeaders(t) == Update(client.headers, InvokeHeaders(job[t].start, job[t].invoke_options))

HasSent(t) == job[t].op = "invoke" /\ Len(job[t].sent) = 1

\* C9: invoke and set_auth take no lock on the header dict.  When the callers
\* serialize their calls, every request carries exactly the headers its own
\* options and the dict at the start of its invoke determine.
C9_SerializedCallsSendOwnHeaders ==
    serialized =>
        \A t \in Callers : HasSent(t) => job[t].sent[1].headers = OwnHeaders(t)

\* C9 witness: with callers that do not serialize, a request is sent with a
\* header that the other caller wrote after this caller's invoke began.
C9_Witness ==
    /\ ~serialized
    /\ \E t \in Callers :
          /\ HasSent(t)
          /\ \E k \in DOMAIN job[t].sent[1].headers :
                GetOpt(job[t].sent[1].headers, k) # GetOpt(OwnHeaders(t), k)

====
